---- MODULE Spec2Model ----
(***************************************************************************)
(* State-machine model of the CDMX metro ridership dashboard front end:    *)
(* the API client (services/api.js), the Station Selector, the Root        *)
(* Application (App.jsx) and the Forecast View (ForecastView.jsx).         *)
(*                                                                         *)
(* Strings that the code inspects character by character (line and station *)
(* names, request paths) are sequences of one-character strings; messages  *)
(* that the code only concatenates are TLA+ strings.                       *)
(***************************************************************************)
EXTENDS Integers, Sequences, FiniteSets, TLC

(***************************************************************************)
(* Bounds of the model.                                                    *)
(***************************************************************************)
\* getTimeSeries calls issued per page load
MaxTsCalls == 2
\* getForecast calls issued by one mounted Forecast View
MaxFcCalls == 2

(***************************************************************************)
(* Characters: UTF-16 code unit (Array.prototype.sort default order) and   *)
(* collation weights (String.prototype.localeCompare).                     *)
(***************************************************************************)
CodeUnit(c) ==
    CASE c = " " -> 32  [] c = "%" -> 37  [] c = "/" -> 47
      [] c = "1" -> 49  [] c = "2" -> 50  [] c = "L" -> 76
      [] c = "Z" -> 90  [] c = "a" -> 97  [] c = "b" -> 98
      [] c = "é" -> 233

\* primary collation weight: space < punctuation < digits < letters (a b e l z)
Primary(c) ==
    CASE c = " " -> 1  [] c = "/" -> 2  [] c = "%" -> 3
      [] c = "1" -> 4  [] c = "2" -> 5  [] c = "a" -> 6
      [] c = "b" -> 7  [] c = "é" -> 8  [] c = "L" -> 9
      [] c = "Z" -> 10

\* secondary weight: accents
Secondary(c) == IF c = "é" THEN 1 ELSE 0

\* tertiary weight: lower case before upper case
Tertiary(c) == IF c \in {"L", "Z"} THEN 1 ELSE 0

RECURSIVE LexCmp(_, _)
\* three-way lexicographic comparison of two sequences of integers
LexCmp(u, v) ==
    IF u = <<>> /\ v = <<>> THEN 0
    ELSE IF u = <<>> THEN -1
    ELSE IF v = <<>> THEN 1
    ELSE IF Head(u) < Head(v) THEN -1
    ELSE IF Head(u) > Head(v) THEN 1
    ELSE LexCmp(Tail(u), Tail(v))

\* a.localeCompare(b): primary weights first, then accents, then case
localeCompare(a, b) ==
    LET p == LexCmp([i \in 1..Len(a) |-> Primary(a[i])], [i \in 1..Len(b) |-> Primary(b[i])])
        s == LexCmp([i \in 1..Len(a) |-> Secondary(a[i])], [i \in 1..Len(b) |-> Secondary(b[i])])
        t == LexCmp([i \in 1..Len(a) |-> Tertiary(a[i])], [i \in 1..Len(b) |-> Tertiary(b[i])])
    IN  IF p # 0 THEN p ELSE IF s # 0 THEN s ELSE t

\* the default comparison of Array.prototype.sort: by UTF-16 code units
codeUnitCompare(a, b) ==
    LexCmp([i \in 1..Len(a) |-> CodeUnit(a[i])], [i \in 1..Len(b) |-> CodeUnit(b[i])])

(***************************************************************************)
(* encodeURIComponent.                                                     *)
(***************************************************************************)
encodeChar(c) ==
    CASE c = " " -> <<"%", "2", "0">>
      [] c = "%" -> <<"%", "2", "5">>
      [] c = "/" -> <<"%", "2", "F">>
      [] c = "é" -> <<"%", "C", "3", "%", "A", "9">>
      [] OTHER   -> <<c>>

RECURSIVE encodeURIComponent(_)
encodeURIComponent(s) ==
    IF s = <<>> THEN <<>> ELSE encodeChar(Head(s)) \o encodeURIComponent(Tail(s))

(***************************************************************************)
(* Values.                                                                 *)
(***************************************************************************)
\* JavaScript null for a message, and the empty string of a <select>
Null == ""
EmptyStr == <<>>

L1 == <<"L", "1">>
L2 == <<"L", " ", "2">>
Za == <<"Z", "a">>
ab == <<"a", "/", "b">>
ep == <<"é", "%">>

\* an argument left out of a call (undefined), and JavaScript's !s for it and
\* for strings
Undefined == <<"undefined">>
Falsy(s) == s = EmptyStr \/ s = Undefined

Station(l, e) == [linea |-> l, estacion |-> e]

\* the station lists the backend may answer with
ListA == <<Station(L1, Za), Station(L2, ab), Station(L1, ep), Station(L1, EmptyStr)>>
StationLists == {<<>>, ListA}

\* a parsed JSON body, as far as the client looks into it
Body(isArray, items, hasDetail, detail, hasData, hasForecast) ==
    [isArray |-> isArray, items |-> items, hasDetail |-> hasDetail, detail |-> detail,
     hasData |-> hasData, hasForecast |-> hasForecast]
NoBody == Body(FALSE, <<>>, FALSE, "", FALSE, FALSE)

\* what fetch() settles with: a rejection (net = FALSE) or an HTTP response
Response(net, ok, status, statusText, parse, body) ==
    [net |-> net, netMsg |-> IF net THEN "" ELSE "Failed to fetch", ok |-> ok, status |-> status,
     statusText |-> statusText, parse |-> parse, body |-> body]

ErrorResponses ==
    { Response(FALSE, FALSE, 0, "", FALSE, NoBody),
      Response(TRUE, FALSE, 404, "Not Found", TRUE, Body(FALSE, <<>>, TRUE, "Estacion no encontrada", FALSE, FALSE)),
      Response(TRUE, FALSE, 500, "Internal Server Error", TRUE, NoBody),
      Response(TRUE, FALSE, 502, "Bad Gateway", FALSE, NoBody),
      Response(TRUE, TRUE, 200, "OK", FALSE, NoBody) }

StationsResponses ==
    ErrorResponses
      \cup { Response(TRUE, TRUE, 200, "OK", TRUE, Body(TRUE, l, FALSE, "", FALSE, FALSE)) : l \in StationLists }
      \cup { Response(TRUE, TRUE, 200, "OK", TRUE, NoBody) }

TimeSeriesResponses ==
    ErrorResponses
      \cup { Response(TRUE, TRUE, 200, "OK", TRUE, Body(FALSE, <<>>, FALSE, "", TRUE, FALSE)),
             Response(TRUE, TRUE, 200, "OK", TRUE, NoBody) }

ForecastResponses ==
    { r \in ErrorResponses : r.status \in {0, 404} }
      \cup { Response(TRUE, TRUE, 200, "OK", TRUE, Body(FALSE, <<>>, FALSE, "", FALSE, TRUE)),
             Response(TRUE, TRUE, 200, "OK", TRUE, NoBody) }

\* the error responses the client is exercised with on its own: the ones above
\* and a 422 whose JSON body holds an empty detail
ApiErrorResponses ==
    ErrorResponses
      \cup { Response(TRUE, FALSE, 422, "Unprocessable Entity", TRUE, Body(FALSE, <<>>, TRUE, "", FALSE, FALSE)) }

(***************************************************************************)
(* services/api.js                                                         *)
(***************************************************************************)
API_BASE_URL == "http://localhost:8000/api"

\* the outcome of an async function: a thrown Error(msg) or a returned value
Threw(msg) == [threw |-> TRUE, msg |-> msg, val |-> NoBody]
Returned(val) == [threw |-> FALSE, msg |-> "", val |-> val]

\* mutant: the body of an error response is not looked at
handleResponse_StatusOnly(response) ==
    IF ~response.ok
    THEN Threw("Error " \o ToString(response.status) \o ": " \o response.statusText)
    ELSE IF response.parse
         THEN Returned(response.body)
         ELSE Threw("La respuesta del servidor tiene un formato inválido")

handleResponse(response) ==
    IF ~response.ok
    THEN IF response.parse /\ response.body.hasDetail /\ response.body.detail # ""
         THEN Threw(response.body.detail)
         ELSE Threw("Error " \o ToString(response.status) \o ": " \o response.statusText)
    ELSE IF response.parse
         THEN Returned(response.body)
         ELSE Threw("La respuesta del servidor tiene un formato inválido")

\* await fetch(url) followed by await handleResponse(response)
fetchAndHandle(response) ==
    IF ~response.net THEN Threw(response.netMsg) ELSE handleResponse(response)

getStations(response) ==
    LET r == fetchAndHandle(response)
        inner == IF r.threw THEN r
                 ELSE IF ~r.val.isArray THEN Threw("El servidor devolvió un formato de datos inesperado")
                 ELSE r
    IN  IF inner.threw THEN Threw("No se pudieron obtener las estaciones: " \o inner.msg) ELSE inner

\* mutant: the arguments are interpolated into the path as they are
getTimeSeriesRequest_Raw(linea, estacion) ==
    IF Falsy(linea) \/ Falsy(estacion)
    THEN [rejected |-> TRUE, msg |-> "Se requiere especificar línea y estación", url |-> <<>>]
    ELSE [rejected |-> FALSE, msg |-> "",
          url |-> <<API_BASE_URL, "/timeseries/">> \o linea \o <<"/">> \o estacion]

\* getTimeSeries up to its fetch: the argument check and the request URL
getTimeSeriesRequest(linea, estacion) ==
    IF Falsy(linea) \/ Falsy(estacion)
    THEN [rejected |-> TRUE, msg |-> "Se requiere especificar línea y estación", url |-> <<>>]
    ELSE [rejected |-> FALSE, msg |-> "",
          url |-> <<API_BASE_URL, "/timeseries/">> \o encodeURIComponent(linea)
                    \o <<"/">> \o encodeURIComponent(estacion)]

\* getTimeSeries from the response on
getTimeSeries(response) ==
    LET r == fetchAndHandle(response)
        inner == IF r.threw THEN r
                 ELSE IF ~r.val.hasData THEN Threw("El formato de los datos recibidos es inválido")
                 ELSE r
    IN  IF inner.threw THEN Threw("No se pudo obtener la serie temporal: " \o inner.msg) ELSE inner

\* mutant: no argument check before the request
getForecastRequest_NoCheck(linea, estacion) ==
    [rejected |-> FALSE, msg |-> "",
     url |-> <<API_BASE_URL, "/forecast/">> \o encodeURIComponent(linea)
               \o <<"/">> \o encodeURIComponent(estacion)]

getForecastRequest(linea, estacion) ==
    IF Falsy(linea) \/ Falsy(estacion)
    THEN [rejected |-> TRUE, msg |-> "Se requiere especificar línea y estación", url |-> <<>>]
    ELSE [rejected |-> FALSE, msg |-> "",
          url |-> <<API_BASE_URL, "/forecast/">> \o encodeURIComponent(linea)
                    \o <<"/">> \o encodeURIComponent(estacion)]

getForecast(response) ==
    LET r == fetchAndHandle(response)
        inner == IF r.threw THEN r
                 ELSE IF ~r.val.hasForecast THEN Threw("El formato del pronóstico recibido es inválido")
                 ELSE r
    IN  IF inner.threw THEN Threw("No se pudo obtener el pronóstico: " \o inner.msg) ELSE inner

(***************************************************************************)
(* State.                                                                  *)
(***************************************************************************)
VARIABLES
    \* StationSelector (components/TimeSeriesChart.jsx 138-279)
    stations, selectedLine, selSelectedStation, selLoading, selError, effectPending,
    \* App (App.jsx)
    timeSeriesData, loading, error, selectedStation, showForecast,
    \* ForecastView (components/ForecastView.jsx); initial values while unmounted
    forecastData, fvLoading, fvError,
    \* calls in flight and the number of calls issued since the page loaded
    \* (getForecast: in flight for, and issued by, the mounted Forecast View)
    stPending, stCalls, tsPending, tsCalls, fcPending, fcCalls,
    \* history: the getTimeSeries calls in the order they settled, the last step
    resolved, last,
    \* the components and the client exercised on their own: the view mode of
    \* ForecastView (ForecastView.jsx 14), the input under study (a call of the
    \* client, a forecast bundle, the data prop of TimeSeriesChart), what has
    \* been computed from it, and the position of that exercise
    mode, arg, out, pc

selectorVars == <<stations, selectedLine, selSelectedStation, selLoading, selError, effectPending>>
rootVars == <<timeSeriesData, loading, error, selectedStation, showForecast>>
fvVars == <<forecastData, fvLoading, fvError>>
netVars == <<stPending, stCalls, tsPending, tsCalls, fcPending, fcCalls>>
appVars == <<selectorVars, rootVars, fvVars, netVars, resolved, last>>
unitVars == <<mode, arg, out, pc>>
vars == <<appVars, unitVars>>

\* useState([]) of App and the [] set after a failure; a fetched series is
\* tagged with the call that fetched it
NoSeries == [held |-> FALSE, id |-> 0, linea |-> EmptyStr, estacion |-> EmptyStr]
\* useState(null) of ForecastView; a bundle is tagged with its call
NoBundle == [held |-> FALSE, id |-> 0, linea |-> EmptyStr, estacion |-> EmptyStr]

GenericError == "No se pudieron cargar los datos. Por favor intenta de nuevo."

\* the last step taken: the handler, its arguments, the call it issued or
\* settled (0 when none), whether a settled call succeeded, and whether
\* before the step the Forecast View held a bundle and the selector a station
Step(op, linea, estacion, id, ok) ==
    [op |-> op, linea |-> linea, estacion |-> estacion, id |-> id, ok |-> ok,
     had |-> forecastData.held, chosen |-> selSelectedStation # EmptyStr]

(***************************************************************************)
(* StationSelector: derived lists.                                         *)
(***************************************************************************)
RECURSIVE insertByCodeUnit(_, _)
insertByCodeUnit(x, s) ==
    IF s = <<>> THEN <<x>>
    ELSE IF codeUnitCompare(Head(s), x) <= 0 THEN <<Head(s)>> \o insertByCodeUnit(x, Tail(s))
    ELSE <<x>> \o s

RECURSIVE sortDefault(_)
\* Array.prototype.sort(): stable, by code units
sortDefault(s) ==
    IF s = <<>> THEN <<>> ELSE insertByCodeUnit(s[Len(s)], sortDefault(SubSeq(s, 1, Len(s) - 1)))

RECURSIVE insertByEstacion(_, _)
insertByEstacion(x, s) ==
    IF s = <<>> THEN <<x>>
    ELSE IF localeCompare(Head(s).estacion, x.estacion) <= 0
         THEN <<Head(s)>> \o insertByEstacion(x, Tail(s))
    ELSE <<x>> \o s

RECURSIVE sortByEstacion(_)
\* Array.prototype.sort((a, b) => a.estacion.localeCompare(b.estacion)): stable
sortByEstacion(s) ==
    IF s = <<>> THEN <<>> ELSE insertByEstacion(s[Len(s)], sortByEstacion(SubSeq(s, 1, Len(s) - 1)))

RECURSIVE uniqueInOrder(_)
\* [...new Set(s)]: the first occurrence of each value, in order
uniqueInOrder(s) ==
    IF s = <<>> THEN <<>>
    ELSE LET front == uniqueInOrder(SubSeq(s, 1, Len(s) - 1))
         IN  IF \E i \in 1..Len(front) : front[i] = s[Len(s)] THEN front ELSE Append(front, s[Len(s)])

lines(sts) ==
    IF Len(sts) = 0 THEN <<>>
    ELSE sortDefault(uniqueInOrder([i \in 1..Len(sts) |-> sts[i].linea]))

\* mutant: the filtered stations are left in the order of the list
stationsForLine_Unsorted(sts, line) ==
    IF line = EmptyStr THEN <<>>
    ELSE SelectSeq(sts, LAMBDA st : st.linea = line)

stationsForLine(sts, line) ==
    IF line = EmptyStr THEN <<>>
    ELSE sortByEstacion(SelectSeq(sts, LAMBDA st : st.linea = line))

(***************************************************************************)
(* Which component instances exist (App.jsx 64-85): the Forecast View is   *)
(* mounted exactly when the Root is not loading, holds no error and the    *)
(* toggle is on. Unmounting discards the view's state; a later mount       *)
(* starts from useState's initial values, and a getForecast call of an     *)
(* unmounted instance settles without touching any state, so it is no      *)
(* longer followed.                                                        *)
(***************************************************************************)
Mounted(l, e, s) == ~l /\ e = Null /\ s

\* mutant: the view stays mounted, and keeps its state, while it is hidden
ForecastViewFrame_Keep(l, e, s) == UNCHANGED <<fvVars, fcPending, fcCalls>>

ForecastViewFrame(l, e, s) ==
    IF Mounted(loading, error, showForecast) /\ Mounted(l, e, s)
    THEN UNCHANGED <<fvVars, fcPending, fcCalls>>
    ELSE /\ forecastData' = NoBundle
         /\ fvLoading' = FALSE
         /\ fvError' = Null
         /\ fcPending' = {}
         /\ fcCalls' = 0

(***************************************************************************)
(* Initial state: the page has rendered once, no effect has run yet.       *)
(***************************************************************************)
InitValues ==
    /\ stations = <<>>
    /\ selectedLine = EmptyStr
    /\ selSelectedStation = EmptyStr
    /\ selLoading = TRUE
    /\ selError = Null
    /\ effectPending = TRUE
    /\ timeSeriesData = NoSeries
    /\ loading = FALSE
    /\ error = Null
    /\ selectedStation = Station(EmptyStr, EmptyStr)
    /\ showForecast = FALSE
    /\ forecastData = NoBundle
    /\ fvLoading = FALSE
    /\ fvError = Null
    /\ stPending = FALSE
    /\ stCalls = 0
    /\ tsPending = {}
    /\ tsCalls = 0
    /\ fcPending = {}
    /\ fcCalls = 0
    /\ resolved = <<>>

\* the page as loaded; no component is exercised on its own
UnitIdle == mode = "all" /\ arg = Null /\ out = Null /\ pc = "app"

Init == InitValues /\ last = Step("load", EmptyStr, EmptyStr, 0, TRUE) /\ UnitIdle

(***************************************************************************)
(* StationSelector (components/TimeSeriesChart.jsx 138-279).               *)
(***************************************************************************)
\* the mount effect, up to its await
fetchStations ==
    /\ effectPending
    /\ effectPending' = FALSE
    /\ selLoading' = TRUE
    /\ stPending' = TRUE
    /\ stCalls' = stCalls + 1
    /\ UNCHANGED <<stations, selectedLine, selSelectedStation, selError>>
    /\ UNCHANGED <<rootVars, fvVars, tsPending, tsCalls, fcPending, fcCalls, resolved>>
    /\ last' = Step("fetchStations", EmptyStr, EmptyStr, stCalls + 1, TRUE)

\* mutant: a failed call is issued again
fetchStationsResume_Retry(response) ==
    LET r == getStations(response)
    IN  /\ stPending
        /\ IF r.threw
           THEN /\ stPending' = TRUE
                /\ stCalls' = stCalls + 1
                /\ selLoading' = TRUE
                /\ UNCHANGED <<stations, selError>>
           ELSE /\ stPending' = FALSE
                /\ UNCHANGED stCalls
                /\ selLoading' = FALSE
                /\ stations' = r.val.items
                /\ UNCHANGED selError
        /\ UNCHANGED <<selectedLine, selSelectedStation, effectPending>>
        /\ UNCHANGED <<rootVars, fvVars, tsPending, tsCalls, fcPending, fcCalls, resolved>>
        /\ last' = Step("stationsSettled", EmptyStr, EmptyStr, stCalls, ~r.threw)

\* the mount effect from the settled getStations call on
fetchStationsResume(response) ==
    LET r == getStations(response)
    IN  /\ stPending
        /\ stPending' = FALSE
        /\ IF r.threw
           THEN /\ selError' = "Error al cargar estaciones: " \o r.msg
                /\ UNCHANGED stations
           ELSE /\ stations' = r.val.items
                /\ UNCHANGED selError
        /\ selLoading' = FALSE
        /\ UNCHANGED <<selectedLine, selSelectedStation, effectPending>>
        /\ UNCHANGED <<rootVars, fvVars, stCalls, tsPending, tsCalls, fcPending, fcCalls, resolved>>
        /\ last' = Step("stationsSettled", EmptyStr, EmptyStr, stCalls, ~r.threw)

\* the two <select> elements are rendered (neither the spinner nor the error)
SelectorReady == ~selLoading /\ selError = Null

\* the values of the <option>s of the two <select> elements
LineOptions == {EmptyStr} \cup {lines(stations)[i] : i \in 1..Len(lines(stations))}
StationOptions ==
    LET sfl == stationsForLine(stations, selectedLine)
    IN  {EmptyStr} \cup {sfl[i].estacion : i \in 1..Len(sfl)}

\* the text of the first <option> of the station <select>, and the caption
\* under the line <select>
stationPlaceholder ==
    IF selectedLine = EmptyStr THEN "Primero selecciona una línea"
    ELSE IF Len(stationsForLine(stations, selectedLine)) = 0 THEN "No hay estaciones disponibles"
    ELSE "Selecciona una estación"
linesCaption == ToString(Len(lines(stations))) \o " líneas disponibles"

handleLineChange(line) ==
    /\ selectedLine' = line
    /\ selSelectedStation' = EmptyStr
    /\ UNCHANGED <<stations, selLoading, selError, effectPending>>
    /\ UNCHANGED <<rootVars, fvVars, netVars, resolved>>
    /\ last' = Step("handleLineChange", line, EmptyStr, 0, TRUE)

(***************************************************************************)
(* App (App.jsx).                                                          *)
(***************************************************************************)
\* handleStationSelect up to its await; when getTimeSeries rejects its
\* arguments the catch and finally blocks run before the next event
handleStationSelect(linea, estacion) ==
    LET req == getTimeSeriesRequest(linea, estacion)
        id == tsCalls + 1
    IN  /\ tsCalls' = id
        /\ showForecast' = FALSE
        /\ IF req.rejected
           THEN /\ loading' = FALSE
                /\ error' = GenericError
                /\ timeSeriesData' = NoSeries
                /\ UNCHANGED tsPending
                /\ resolved' = Append(resolved, [id |-> id, linea |-> linea, estacion |-> estacion, ok |-> FALSE])
           ELSE /\ loading' = TRUE
                /\ error' = Null
                /\ UNCHANGED timeSeriesData
                /\ tsPending' = tsPending \cup
                       {[id |-> id, linea |-> linea, estacion |-> estacion, url |-> req.url]}
                /\ UNCHANGED resolved
        /\ UNCHANGED selectedStation
        /\ ForecastViewFrame(loading', error', showForecast')
        /\ UNCHANGED <<stPending, stCalls>>

\* handleStationSelect after the await: the rest of the try block
tryBlock(c) ==
    /\ timeSeriesData' = [held |-> TRUE, id |-> c.id, linea |-> c.linea, estacion |-> c.estacion]
    /\ selectedStation' = Station(c.linea, c.estacion)
    /\ UNCHANGED error

\* handleStationSelect: the catch block
catchBlock ==
    /\ error' = GenericError
    /\ timeSeriesData' = NoSeries
    /\ UNCHANGED selectedStation

\* handleStationSelect: the finally block, and the bookkeeping of the step
finallyBlock(c, ok) ==
    /\ loading' = FALSE
    /\ UNCHANGED showForecast
    /\ ForecastViewFrame(loading', error', showForecast')
    /\ tsPending' = tsPending \ {c}
    /\ resolved' = Append(resolved, [id |-> c.id, linea |-> c.linea, estacion |-> c.estacion, ok |-> ok])
    /\ UNCHANGED <<selectorVars, stPending, stCalls, tsCalls>>
    /\ last' = Step("timeSeriesSettled", c.linea, c.estacion, c.id, ok)

\* mutant: the response of a call that is not the latest one issued is dropped
handleStationSelectResume_DropStale(c, response) ==
    LET r == getTimeSeries(response)
    IN  /\ IF r.threw THEN catchBlock
           ELSE IF c.id = tsCalls THEN tryBlock(c)
           ELSE UNCHANGED <<timeSeriesData, selectedStation, error>>
        /\ finallyBlock(c, ~r.threw)

\* mutant: a failure leaves the series fetched before on display
handleStationSelectResume_KeepStale(c, response) ==
    LET r == getTimeSeries(response)
    IN  /\ IF r.threw
           THEN error' = GenericError /\ UNCHANGED <<timeSeriesData, selectedStation>>
           ELSE tryBlock(c)
        /\ finallyBlock(c, ~r.threw)

\* handleStationSelect from the settled getTimeSeries call on
handleStationSelectResume(c, response) ==
    LET r == getTimeSeries(response)
    IN  /\ IF r.threw THEN catchBlock ELSE tryBlock(c)
        /\ finallyBlock(c, ~r.threw)

\* the toggle button is rendered (App.jsx 47)
ToggleRendered == selectedStation.linea # EmptyStr /\ selectedStation.estacion # EmptyStr

\* mutant: the toggle also drops the held series
toggleForecast_Reset ==
    /\ showForecast' = ~showForecast
    /\ timeSeriesData' = NoSeries
    /\ UNCHANGED <<loading, error, selectedStation>>
    /\ ForecastViewFrame(loading', error', showForecast')
    /\ UNCHANGED <<selectorVars, stPending, stCalls, tsPending, tsCalls, resolved>>
    /\ last' = Step("toggleForecast", EmptyStr, EmptyStr, 0, TRUE)

toggleForecast ==
    /\ showForecast' = ~showForecast
    /\ UNCHANGED <<timeSeriesData, loading, error, selectedStation>>
    /\ ForecastViewFrame(loading', error', showForecast')
    /\ UNCHANGED <<selectorVars, stPending, stCalls, tsPending, tsCalls, resolved>>
    /\ last' = Step("toggleForecast", EmptyStr, EmptyStr, 0, TRUE)

\* mutant: the selection is reported without the check of line 195
handleStationChange_NoGuard(station) ==
    /\ selSelectedStation' = station
    /\ UNCHANGED <<stations, selectedLine, selLoading, selError, effectPending>>
    /\ handleStationSelect(selectedLine, station)
    /\ last' = Step("handleStationChange", selectedLine, station, tsCalls + 1, TRUE)

\* StationSelector.handleStationChange, which calls the Root's
\* handleStationSelect through onStationSelect
handleStationChange(station) ==
    /\ selSelectedStation' = station
    /\ UNCHANGED <<stations, selectedLine, selLoading, selError, effectPending>>
    /\ IF station # EmptyStr /\ selectedLine # EmptyStr
       THEN /\ handleStationSelect(selectedLine, station)
            /\ last' = Step("handleStationChange", selectedLine, station, tsCalls + 1, TRUE)
       ELSE /\ UNCHANGED <<rootVars, fvVars, netVars, resolved>>
            /\ last' = Step("handleStationChange", selectedLine, station, 0, TRUE)

(***************************************************************************)
(* ForecastView (components/ForecastView.jsx).                             *)
(***************************************************************************)
\* mutant: the action button is not disabled while loading
ForecastButtonEnabled_Always == Mounted(loading, error, showForecast)

\* the action button is rendered and enabled (disabled={loading})
ForecastButtonEnabled == Mounted(loading, error, showForecast) /\ ~fvLoading

\* handleForecastClick, lines 12-15: a held bundle is discarded
discardForecast ==
    /\ forecastData' = NoBundle
    /\ UNCHANGED <<fvLoading, fvError, fcPending, fcCalls>>

\* handleForecastClick, lines 17-21, up to the await; linea and estacion are
\* the props, the Root's selectedStation
requestForecast ==
    LET req == getForecastRequest(selectedStation.linea, selectedStation.estacion)
        id == fcCalls + 1
    IN  /\ fcCalls' = id
        /\ UNCHANGED forecastData
        /\ IF req.rejected
           THEN /\ fvLoading' = FALSE
                /\ fvError' = "Error: " \o req.msg
                /\ UNCHANGED fcPending
           ELSE /\ fvLoading' = TRUE
                /\ fvError' = Null
                /\ fcPending' = fcPending \cup
                       {[id |-> id, linea |-> selectedStation.linea,
                         estacion |-> selectedStation.estacion, url |-> req.url]}

\* mutant: the click fetches again although a bundle is held
handleForecastClick_Refetch ==
    /\ requestForecast
    /\ UNCHANGED <<selectorVars, rootVars, stPending, stCalls, tsPending, tsCalls, resolved>>
    /\ last' = Step("handleForecastClick", selectedStation.linea, selectedStation.estacion,
                    fcCalls + 1, TRUE)

handleForecastClick ==
    /\ IF forecastData.held THEN discardForecast ELSE requestForecast
    /\ UNCHANGED <<selectorVars, rootVars, stPending, stCalls, tsPending, tsCalls, resolved>>
    /\ last' = Step("handleForecastClick", selectedStation.linea, selectedStation.estacion,
                    IF forecastData.held THEN 0 ELSE fcCalls + 1, TRUE)

\* handleForecastClick from the settled getForecast call on
handleForecastClickResume(c, response) ==
    LET r == getForecast(response)
    IN  /\ fcPending' = fcPending \ {c}
        /\ IF r.threw
           THEN /\ fvError' = "Error: " \o r.msg
                /\ UNCHANGED forecastData
           ELSE /\ forecastData' = [held |-> TRUE, id |-> c.id, linea |-> c.linea, estacion |-> c.estacion]
                /\ UNCHANGED fvError
        /\ fvLoading' = FALSE
        /\ UNCHANGED <<selectorVars, rootVars, stPending, stCalls, tsPending, tsCalls, fcCalls, resolved>>
        /\ last' = Step("forecastSettled", c.linea, c.estacion, c.id, ~r.threw)

(***************************************************************************)
(* The selector's "Reintentar" button: window.location.reload() loads the  *)
(* page anew.                                                              *)
(***************************************************************************)
reload ==
    /\ stations' = <<>>
    /\ selectedLine' = EmptyStr
    /\ selSelectedStation' = EmptyStr
    /\ selLoading' = TRUE
    /\ selError' = Null
    /\ effectPending' = TRUE
    /\ timeSeriesData' = NoSeries
    /\ loading' = FALSE
    /\ error' = Null
    /\ selectedStation' = Station(EmptyStr, EmptyStr)
    /\ showForecast' = FALSE
    /\ forecastData' = NoBundle
    /\ fvLoading' = FALSE
    /\ fvError' = Null
    /\ stPending' = FALSE
    /\ stCalls' = 0
    /\ tsPending' = {}
    /\ tsCalls' = 0
    /\ fcPending' = {}
    /\ fcCalls' = 0
    /\ resolved' = <<>>
    /\ last' = Step("reload", EmptyStr, EmptyStr, 0, TRUE)

(***************************************************************************)
(* Specification.                                                          *)
(***************************************************************************)
FetchStations == fetchStations /\ UNCHANGED unitVars

StationsSettle == \E response \in StationsResponses : fetchStationsResume(response) /\ UNCHANGED unitVars

LineChange ==
    /\ SelectorReady
    /\ \E line \in LineOptions : line # selectedLine /\ handleLineChange(line)
    /\ UNCHANGED unitVars

\* the station <select> is disabled while no line is chosen
StationChange ==
    /\ SelectorReady
    /\ selectedLine # EmptyStr
    /\ \E station \in StationOptions :
          /\ station # selSelectedStation
          /\ station = EmptyStr \/ tsCalls < MaxTsCalls
          /\ handleStationChange(station)
    /\ UNCHANGED unitVars

TimeSeriesSettle ==
    /\ \E c \in tsPending : \E response \in TimeSeriesResponses : handleStationSelectResume(c, response)
    /\ UNCHANGED unitVars

Toggle == ToggleRendered /\ toggleForecast /\ UNCHANGED unitVars

ForecastClick ==
    /\ ForecastButtonEnabled
    /\ forecastData.held \/ fcCalls < MaxFcCalls
    /\ handleForecastClick
    /\ UNCHANGED unitVars

ForecastSettle ==
    /\ \E c \in fcPending : \E response \in ForecastResponses : handleForecastClickResume(c, response)
    /\ UNCHANGED unitVars

Reload == ~selLoading /\ selError # Null /\ reload /\ UNCHANGED unitVars

Next ==
    \/ FetchStations
    \/ StationsSettle
    \/ LineChange
    \/ StationChange
    \/ TimeSeriesSettle
    \/ Toggle
    \/ ForecastClick
    \/ ForecastSettle
    \/ Reload

Spec == Init /\ [][Next]_vars

(***************************************************************************)
(* The API client on its own: one call of getStations, getTimeSeries or    *)
(* getForecast with any arguments, answered by any response.               *)
(***************************************************************************)
ApiCalls ==
    { [fn |-> "getStations", linea |-> Undefined, estacion |-> Undefined, response |-> r] :
        r \in StationsResponses \cup ApiErrorResponses }
      \cup { [fn |-> "getTimeSeries", linea |-> l, estacion |-> e, response |-> r] :
                l \in {Undefined, EmptyStr, L1}, e \in {Undefined, EmptyStr, Za, ep},
                r \in TimeSeriesResponses \cup ApiErrorResponses }
      \cup { [fn |-> "getForecast", linea |-> l, estacion |-> e, response |-> r] :
                l \in {Undefined, EmptyStr, L1}, e \in {Undefined, EmptyStr, Za, ep},
                r \in ForecastResponses \cup ApiErrorResponses }

\* the call up to its first await: the argument check throws before any
\* fetch, otherwise the request is issued
apiRequest(call) ==
    IF call.fn = "getStations" THEN [rejected |-> FALSE, msg |-> "", url |-> <<API_BASE_URL, "/stations">>]
    ELSE IF call.fn = "getTimeSeries" THEN getTimeSeriesRequest(call.linea, call.estacion)
    ELSE getForecastRequest(call.linea, call.estacion)

\* the call from the response on
apiResult(call) ==
    IF call.fn = "getStations" THEN getStations(call.response)
    ELSE IF call.fn = "getTimeSeries" THEN getTimeSeries(call.response)
    ELSE getForecast(call.response)

apiCall ==
    /\ pc = "call"
    /\ LET req == apiRequest(arg)
       IN  IF req.rejected
           THEN out' = [requests |-> <<>>, result |-> Threw(req.msg)] /\ pc' = "settled"
           ELSE out' = [requests |-> <<req.url>>] /\ pc' = "await"
    /\ UNCHANGED <<mode, arg>>

apiSettle ==
    /\ pc = "await"
    /\ out' = [requests |-> out.requests, result |-> apiResult(arg)]
    /\ pc' = "settled"
    /\ UNCHANGED <<mode, arg>>

InitApi ==
    /\ InitValues /\ last = Step("load", EmptyStr, EmptyStr, 0, TRUE)
    /\ mode = "all" /\ arg \in ApiCalls /\ out = Null /\ pc = "call"

ApiCall == apiCall /\ UNCHANGED appVars

ApiSettle == apiSettle /\ UNCHANGED appVars

NextApi ==
    \/ ApiCall
    \/ ApiSettle

SpecApi == InitApi /\ [][NextApi]_vars

(***************************************************************************)
(* components/ForecastView.jsx on its own: a bundle returned by            *)
(* getForecast is sanitized and held, and the view mode is changed.        *)
(***************************************************************************)
\* the longest train.dates of the bundles studied
MaxLen == 2

\* JavaScript values found in a bundle; Num(n) is the number n / 1000
Num(n) == [t |-> "number", n |-> n]
Str(s) == [t |-> "string", s |-> s]
JsNull == [t |-> "null"]
JsUndefined == [t |-> "undefined"]

\* a property that holds an array, and one that holds none
Arr(items) == [isArray |-> TRUE, items |-> items]
NotArr == [isArray |-> FALSE, items |-> <<>>]

\* the dates of a bundle: two months out of order, text that is no date, null
DateValues == {Str("2021-03"), Str("2021-01"), Str("n/a"), JsNull}
SeqsUpTo(S, n) == UNION {[1..k -> S] : k \in 0..n}

\* the value arrays that go with n dates: complete, with nulls at alternating
\* indexes, all zero, one element short, one element long, or not arrays at all
Shapes == {"full", "nulls", "zero", "short", "long", "none"}
Cell(field, i, shape) ==
    LET base == CASE field = "actual" -> 10 [] field = "fitted" -> 20 [] field = "predicted" -> 30
                  [] field = "lower" -> 40 [] field = "upper" -> 50
        odd == field \in {"actual", "lower"}
    IN  IF shape = "nulls" /\ (i % 2 = 1) = odd THEN JsNull
        ELSE IF shape = "zero" THEN Num(0)
        ELSE Num(1000 * (base + i))
ValueArray(field, n, shape) ==
    IF shape = "none" THEN NotArr
    ELSE Arr([i \in 1..(IF shape = "short" /\ n > 0 THEN n - 1 ELSE IF shape = "long" THEN n + 1 ELSE n) |->
                Cell(field, i, shape)])

NoSub == [present |-> FALSE]
Train(dates, shape) ==
    [present |-> TRUE, dates |-> Arr(dates),
     actual |-> ValueArray("actual", Len(dates), shape), fitted |-> ValueArray("fitted", Len(dates), shape),
     lower |-> ValueArray("lower", Len(dates), shape), upper |-> ValueArray("upper", Len(dates), shape)]
Test(dates, shape) ==
    [present |-> TRUE, dates |-> Arr(dates),
     actual |-> ValueArray("actual", Len(dates), shape), predicted |-> ValueArray("predicted", Len(dates), shape),
     lower |-> ValueArray("lower", Len(dates), shape), upper |-> ValueArray("upper", Len(dates), shape)]
Forecast(dates, shape) ==
    [present |-> TRUE, dates |-> Arr(dates),
     predicted |-> ValueArray("predicted", Len(dates), shape),
     lower |-> ValueArray("lower", Len(dates), shape), upper |-> ValueArray("upper", Len(dates), shape)]

\* anomalies of a bundle
Covid == [start_date |-> "2020-03", end_date |-> "2021-06", name |-> "COVID-19", impact_percent |-> 60]
Sismo == [start_date |-> "2017-09", end_date |-> "2017-10", name |-> "Sismo", impact_percent |-> 15]
AnomalyLists == {NotArr, Arr(<<>>), Arr(<<Covid>>), Arr(<<Covid, Sismo>>)}

\* metrics of a bundle: none, without test, test null, or test with each of
\* rmse, mae, mape, r2 absent, null or a number
NoMetrics == [present |-> FALSE]
MetricValues == {JsUndefined, JsNull, Num(1234567)}
TestMetrics(rmse, mae, mape, r2) ==
    [present |-> TRUE, isNull |-> FALSE, rmse |-> rmse, mae |-> mae, mape |-> mape, r2 |-> r2]
MetricsValues ==
    { NoMetrics,
      [present |-> TRUE, test |-> [present |-> FALSE, isNull |-> FALSE]],
      [present |-> TRUE, test |-> [present |-> TRUE, isNull |-> TRUE]] }
      \cup { [present |-> TRUE, test |-> TestMetrics(a, b, c, d)] :
                a \in MetricValues, b \in MetricValues, c \in MetricValues, d \in MetricValues }

Bundle(train, test, forecast, anomalies, metrics) ==
    [train |-> train, test |-> test, forecast |-> forecast, anomalies |-> anomalies, metrics |-> metrics]

\* a sub-series left out of the bundle, or one with up to n of the dates D
SubChoices(D, n) == {[present |-> FALSE, dates |-> <<>>]} \cup {[present |-> TRUE, dates |-> d] : d \in SeqsUpTo(D, n)}

\* the bundles studied: every combination of sub-series and shape of their
\* value arrays with one anomaly and no metrics, and every combination of
\* anomalies and metrics with two rows
ForecastBundles ==
    { Bundle(IF tr.present THEN Train(tr.dates, sh) ELSE NoSub,
             IF te.present THEN Test(te.dates, sh) ELSE NoSub,
             IF fc.present THEN Forecast(fc.dates, sh) ELSE NoSub,
             Arr(<<Covid>>), NoMetrics) :
        tr \in SubChoices(DateValues, MaxLen),
        te \in SubChoices({Str("2021-01"), Str("n/a")}, 1),
        fc \in SubChoices({Str("2021-01"), Str("n/a")}, 1),
        sh \in Shapes }
      \cup { Bundle(Train(<<Str("2021-01")>>, "full"), Test(<<Str("2021-03")>>, "full"), NoSub, an, me) :
                an \in AnomalyLists, me \in MetricsValues }

\* mutant: null values are kept as they are
sanitizeArray_KeepNull(arr) ==
    IF ~arr.isArray THEN <<>> ELSE arr.items

sanitizeArray(arr) ==
    IF ~arr.isArray THEN <<>>
    ELSE [i \in 1..Len(arr.items) |-> IF arr.items[i] = JsNull THEN JsUndefined ELSE arr.items[i]]

\* the result keeps every field of data; train, test and forecast are rebuilt
\* when they are present
sanitizeForecastData(data) ==
    [data EXCEPT
       !.train = IF ~data.train.present THEN data.train
                 ELSE [present |-> TRUE, dates |-> sanitizeArray(data.train.dates),
                       actual |-> sanitizeArray(data.train.actual), fitted |-> sanitizeArray(data.train.fitted),
                       lower |-> sanitizeArray(data.train.lower), upper |-> sanitizeArray(data.train.upper)],
       !.test = IF ~data.test.present THEN data.test
                ELSE [present |-> TRUE, dates |-> sanitizeArray(data.test.dates),
                      actual |-> sanitizeArray(data.test.actual), predicted |-> sanitizeArray(data.test.predicted),
                      lower |-> sanitizeArray(data.test.lower), upper |-> sanitizeArray(data.test.upper)],
       !.forecast = IF ~data.forecast.present THEN data.forecast
                    ELSE [present |-> TRUE, dates |-> sanitizeArray(data.forecast.dates),
                          predicted |-> sanitizeArray(data.forecast.predicted),
                          lower |-> sanitizeArray(data.forecast.lower), upper |-> sanitizeArray(data.forecast.upper)]]

\* arr?.[i] of a sanitized array (indexes from 1)
At(arr, i) == IF i <= Len(arr) THEN arr[i] ELSE JsUndefined

\* a row of chartData; a key the row does not have reads as undefined
ChartPoint(fecha, actual, fitted, validation_predicted, predicted, lower, upper, type) ==
    [fecha |-> fecha, actual |-> actual, fitted |-> fitted, validation_predicted |-> validation_predicted,
     predicted |-> predicted, lower |-> lower, upper |-> upper, type |-> type]

trainRows(fd) ==
    IF ~fd.train.present THEN <<>>
    ELSE [i \in 1..Len(fd.train.dates) |->
            ChartPoint(fd.train.dates[i], At(fd.train.actual, i), At(fd.train.fitted, i), JsUndefined,
                       JsUndefined, At(fd.train.lower, i), At(fd.train.upper, i), "train")]

\* mutant: the prediction of a test row is stored under predicted
testRows_Predicted(fd) ==
    IF ~fd.test.present THEN <<>>
    ELSE [i \in 1..Len(fd.test.dates) |->
            ChartPoint(fd.test.dates[i], At(fd.test.actual, i), JsUndefined, JsUndefined,
                       At(fd.test.predicted, i), At(fd.test.lower, i), At(fd.test.upper, i), "test")]

testRows(fd) ==
    IF ~fd.test.present THEN <<>>
    ELSE [i \in 1..Len(fd.test.dates) |->
            ChartPoint(fd.test.dates[i], At(fd.test.actual, i), JsUndefined, At(fd.test.predicted, i),
                       JsUndefined, At(fd.test.lower, i), At(fd.test.upper, i), "test")]

futureRows(fd) ==
    IF ~fd.forecast.present THEN <<>>
    ELSE [i \in 1..Len(fd.forecast.dates) |->
            ChartPoint(fd.forecast.dates[i], JsUndefined, JsUndefined, JsUndefined,
                       At(fd.forecast.predicted, i), At(fd.forecast.lower, i), At(fd.forecast.upper, i), "future")]

\* chartData before the filter
mergeRows(fd) == trainRows(fd) \o testRows(fd) \o futureRows(fd)

\* mutant: the test mode also lets the future rows through
filterByMode_TestAndFuture(rows, m) ==
    (IF m \in {"all", "train"} THEN SelectSeq(rows, LAMBDA d : d.type = "train") ELSE <<>>)
      \o (IF m \in {"all", "test"} THEN SelectSeq(rows, LAMBDA d : d.type = "test") ELSE <<>>)
      \o (IF m \in {"all", "test", "future"} THEN SelectSeq(rows, LAMBDA d : d.type = "future") ELSE <<>>)

filterByMode(rows, m) ==
    (IF m \in {"all", "train"} THEN SelectSeq(rows, LAMBDA d : d.type = "train") ELSE <<>>)
      \o (IF m \in {"all", "test"} THEN SelectSeq(rows, LAMBDA d : d.type = "test") ELSE <<>>)
      \o (IF m \in {"all", "future"} THEN SelectSeq(rows, LAMBDA d : d.type = "future") ELSE <<>>)

\* new Date(v): the time of a date (days since 1970-01-01), or an Invalid Date
newDate(v) ==
    IF v.t = "string"
    THEN CASE v.s = "2021-01" -> [valid |-> TRUE, time |-> 18628]
           [] v.s = "2021-03" -> [valid |-> TRUE, time |-> 18687]
           [] OTHER -> [valid |-> FALSE, time |-> 0]
    ELSE IF v.t = "number" THEN [valid |-> TRUE, time |-> v.n]
    ELSE IF v.t = "null" THEN [valid |-> TRUE, time |-> 0]
    ELSE [valid |-> FALSE, time |-> 0]

\* mutant: the dates are subtracted the other way round
compareFecha_Reversed(a, b) ==
    LET da == newDate(a.fecha)
        db == newDate(b.fecha)
    IN  IF da.valid /\ db.valid THEN db.time - da.time ELSE 0

\* the comparator of the sort: the difference of two dates is NaN when one of
\* them is invalid, and sort() takes a NaN result for +0; nothing throws
compareFecha(a, b) ==
    LET da == newDate(a.fecha)
        db == newDate(b.fecha)
    IN  IF da.valid /\ db.valid THEN da.time - db.time ELSE 0

RECURSIVE insertByFecha(_, _)
insertByFecha(x, s) ==
    IF s = <<>> THEN <<x>>
    ELSE IF compareFecha(s[Len(s)], x) <= 0 THEN Append(s, x)
    ELSE Append(insertByFecha(x, SubSeq(s, 1, Len(s) - 1)), s[Len(s)])

RECURSIVE sortByFecha(_)
\* Array.prototype.sort(comparator): a stable insertion sort, each row moved
\* left past the rows the comparator puts after it.  With an Invalid Date among
\* the rows the comparator is not a consistent order and the standard leaves
\* the resulting order to the engine; for rows that an Invalid Date separates
\* an insertion sort, like the run detection of V8, leaves them where they are.
sortByFecha(s) ==
    IF s = <<>> THEN <<>> ELSE insertByFecha(s[Len(s)], sortByFecha(SubSeq(s, 1, Len(s) - 1)))

prepareChartData(fd, m) == sortByFecha(filterByMode(mergeRows(fd), m))

getAnomalyPeriods(fd) ==
    IF ~fd.anomalies.isArray THEN <<>>
    ELSE [i \in 1..Len(fd.anomalies.items) |->
            [start |-> fd.anomalies.items[i].start_date, end |-> fd.anomalies.items[i].end_date,
             name |-> fd.anomalies.items[i].name, impact |-> fd.anomalies.items[i].impact_percent]]

\* the <ReferenceArea> elements: they are children of the chart, which gives
\* way to 'No hay datos válidos para visualizar' when there is no row
referenceAreas(fd, m) ==
    IF Len(prepareChartData(fd, m)) = 0 THEN <<>>
    ELSE LET periods == getAnomalyPeriods(fd)
         IN  [i \in 1..Len(periods) |->
                [x1 |-> periods[i].start, x2 |-> periods[i].end,
                 label |-> periods[i].name \o " (-" \o ToString(periods[i].impact) \o "%)"]]

\* forecastData.metrics?.test && (...)
metricsPanelRendered(fd) == fd.metrics.present /\ fd.metrics.test.present /\ ~fd.metrics.test.isNull

\* the cards of 'Eventos Detectados', a child of the metrics block
eventCards(fd) ==
    IF metricsPanelRendered(fd) /\ Len(getAnomalyPeriods(fd)) > 0
    THEN LET periods == getAnomalyPeriods(fd)
         IN  [i \in 1..Len(periods) |->
                [name |-> periods[i].name,
                 periodo |-> periods[i].start \o " a " \o periods[i].end,
                 impacto |-> "Reducción del " \o ToString(periods[i].impact) \o "% en afluencia"]]
    ELSE <<>>

\* the decimal digits of n, at least w of them
Digits(n, w) ==
    IF w = 3 /\ n < 10 THEN "00" \o ToString(n)
    ELSE IF (w = 3 /\ n < 100) \/ (w = 2 /\ n < 10) THEN "0" \o ToString(n)
    ELSE ToString(n)

RECURSIVE intlFormat(_)
\* new Intl.NumberFormat('es-MX').format(n) of an integer n: groups of three
\* digits separated by commas
intlFormat(n) ==
    IF n < 0 THEN "-" \o intlFormat(0 - n)
    ELSE IF n < 1000 THEN ToString(n)
    ELSE intlFormat(n \div 1000) \o "," \o Digits(n % 1000, 3)

\* Math.round(v): the integer nearest to v.n / 1000, halves upwards
mathRound(v) == (v.n + 500) \div 1000

formatNumber(num) ==
    IF num = JsNull \/ num = JsUndefined THEN "N/A" ELSE intlFormat(mathRound(num))

\* v.toFixed(digits), digits 2 or 3, of a value that is not negative; it throws
\* a TypeError when v is null or undefined
toFixed(v, digits) ==
    IF v.t # "number" THEN [threw |-> TRUE, text |-> ""]
    ELSE IF digits = 3
         THEN [threw |-> FALSE, text |-> ToString(v.n \div 1000) \o "." \o Digits(v.n % 1000, 3)]
         ELSE LET h == (v.n + 5) \div 10
              IN  [threw |-> FALSE, text |-> ToString(h \div 100) \o "." \o Digits(h % 100, 2)]

rmseCell(v) == IF v # JsUndefined THEN formatNumber(v) ELSE "N/A"

\* mutant: toFixed is called whether or not there is a mape
mapeCell_NoGuard(v) ==
    [threw |-> toFixed(v, 2).threw, text |-> toFixed(v, 2).text \o "%"]

mapeCell(v) ==
    IF v # JsUndefined
    THEN [threw |-> toFixed(v, 2).threw, text |-> toFixed(v, 2).text \o "%"]
    ELSE [threw |-> FALSE, text |-> "N/A"]

r2Cell(v) == IF v # JsUndefined THEN toFixed(v, 3) ELSE [threw |-> FALSE, text |-> "N/A"]

\* the 'Métricas de Precisión' block: whether it is rendered, whether
\* rendering it throws, and the text of its four cells
metricsPanel(fd) ==
    IF ~metricsPanelRendered(fd)
    THEN [rendered |-> FALSE, failed |-> FALSE, rmse |-> "", mae |-> "", mape |-> "", r2 |-> ""]
    ELSE LET test == fd.metrics.test
         IN  [rendered |-> TRUE,
              failed |-> mapeCell(test.mape).threw \/ r2Cell(test.r2).threw,
              rmse |-> rmseCell(test.rmse), mae |-> rmseCell(test.mae),
              mape |-> mapeCell(test.mape).text, r2 |-> r2Cell(test.r2).text]

storeForecast ==
    /\ pc = "fetched"
    /\ out' = sanitizeForecastData(arg)
    /\ pc' = "held"
    /\ UNCHANGED <<mode, arg>>

setMode(m) ==
    /\ pc = "held"
    /\ mode' = m
    /\ UNCHANGED <<arg, out, pc>>

\* the rows the view renders from its state
chartData == prepareChartData(out, mode)

InitForecast ==
    /\ InitValues /\ last = Step("load", EmptyStr, EmptyStr, 0, TRUE)
    /\ mode = "all" /\ arg \in ForecastBundles /\ out = Null /\ pc = "fetched"

StoreForecast == storeForecast /\ UNCHANGED appVars

SetMode == \E m \in {"all", "train", "test", "future"} : m # mode /\ setMode(m) /\ UNCHANGED appVars

NextForecast ==
    \/ StoreForecast
    \/ SetMode

SpecForecast == InitForecast /\ [][NextForecast]_vars

(***************************************************************************)
(* components/TimeSeriesChart.jsx (the chart, lines 4-132) on its own: it  *)
(* is rendered with a data prop.                                           *)
(***************************************************************************)
\* the longest data prop studied
MaxPoints == 2

JsNaN == [t |-> "NaN"]
NegInfinity == [t |-> "-Infinity"]
PosInfinity == [t |-> "Infinity"]

\* the points of a series: a date, afluencia or mean or both or neither, min
\* and max or not, zero among the values; a point without fecha; a null item
Point(fecha, afluencia, mean, min, max) ==
    [fecha |-> fecha, afluencia |-> afluencia, mean |-> mean, min |-> min, max |-> max]
Points ==
    { Point(Str("2021-01"), a, m, lo, hi) :
        a \in {JsUndefined, Num(0), Num(10000)}, m \in {JsUndefined, Num(20000)},
        lo \in {JsUndefined, Num(0), Num(5000)}, hi \in {JsUndefined, Num(30000)} }
      \cup { Point(JsUndefined, Num(10000), JsUndefined, Num(5000), Num(30000)), JsNull }
SeriesData == SeqsUpTo(Points, MaxPoints)

\* item?.key
Get(item, key) == IF item = JsNull \/ item = JsUndefined THEN JsUndefined ELSE item[key]

\* the truth value of a value, and a || b
Truthy(v) == (v.t = "number" /\ v.n # 0) \/ (v.t = "string" /\ v.s # "")
Or(a, b) == IF Truthy(a) THEN a ELSE b

\* a + b of two values that are numbers, NaN or undefined
Plus(a, b) == IF a.t = "number" /\ b.t = "number" THEN Num(a.n + b.n) ELSE JsNaN

validData(data) ==
    SelectSeq(data, LAMBDA item :
        /\ item # JsNull
        /\ Truthy(item.fecha)
        /\ (item.afluencia # JsUndefined \/ item.mean # JsUndefined))

\* formatNumber of the chart, applied to the quotient a / count
formatQuotient(a, count) ==
    IF a.t # "number" \/ count = 0 THEN "NaN"
    ELSE intlFormat((2 * a.n + 1000 * count) \div (2000 * count))

\* formatNumber of the chart, applied to a value; the infinity sign of the
\* formatted text is spelled out
chartFormatNumber(num) ==
    IF num = JsNull \/ num = JsUndefined THEN "N/A"
    ELSE IF num = JsNaN THEN "NaN"
    ELSE IF num = NegInfinity THEN "-(infinity sign)"
    ELSE IF num = PosInfinity THEN "(infinity sign)"
    ELSE intlFormat(mathRound(num))

\* the key the <YAxis> and the <Line> read from every point, chosen from the
\* first item of data
lineDataKey(data) == IF Get(data[1], "afluencia") # JsUndefined THEN "afluencia" ELSE "mean"

\* the value the tooltip of a point shows after 'Afluencia:'
tooltipValue(item) == IF item.afluencia # JsUndefined THEN item.afluencia ELSE item.mean

\* the value of a point that goes into the mean
aggregateValue(item) == Or(item.afluencia, item.mean)

RECURSIVE sumPrimary(_)
\* validData.reduce((sum, item) => sum + (item.afluencia || item.mean), 0)
sumPrimary(items) ==
    IF items = <<>> THEN Num(0)
    ELSE Plus(sumPrimary(SubSeq(items, 1, Len(items) - 1)), aggregateValue(items[Len(items)]))

\* Math.max(...values) and Math.min(...values): an argument that is not a
\* number makes the result NaN
mathMax(values) ==
    IF values = <<>> THEN NegInfinity
    ELSE IF \E i \in 1..Len(values) : values[i].t # "number" THEN JsNaN
    ELSE CHOOSE v \in {values[i] : i \in 1..Len(values)} : \A i \in 1..Len(values) : values[i].n <= v.n
mathMin(values) ==
    IF values = <<>> THEN PosInfinity
    ELSE IF \E i \in 1..Len(values) : values[i].t # "number" THEN JsNaN
    ELSE CHOOSE v \in {values[i] : i \in 1..Len(values)} : \A i \in 1..Len(values) : values[i].n >= v.n

\* the three cards under the chart, rendered when the first item of data has
\* both min and max
statsPanel(data) ==
    LET valid == validData(data)
    IN  IF Get(data[1], "min") # JsUndefined /\ Get(data[1], "max") # JsUndefined
        THEN [rendered |-> TRUE,
              mean |-> formatQuotient(sumPrimary(valid), Len(valid)),
              max |-> chartFormatNumber(mathMax([i \in 1..Len(valid) |->
                          Or(valid[i].max, Or(valid[i].afluencia, valid[i].mean))])),
              min |-> chartFormatNumber(mathMin([i \in 1..Len(valid) |->
                          Or(valid[i].min, Or(valid[i].afluencia, valid[i].mean))]))]
        ELSE [rendered |-> FALSE, mean |-> "", max |-> "", min |-> ""]

\* what the component returns for a data prop: the placeholder or the chart,
\* the points given to the chart, the value plotted and the value shown in the
\* tooltip for each of them, and the cards
TimeSeriesChart(data) ==
    IF Len(data) = 0
    THEN [placeholder |-> "Selecciona una línea y estación para visualizar datos",
          chart |-> FALSE, points |-> <<>>, dataKey |-> "", line |-> <<>>, tooltips |-> <<>>,
          stats |-> [rendered |-> FALSE, mean |-> "", max |-> "", min |-> ""]]
    ELSE LET valid == validData(data)
         IN  [placeholder |-> "", chart |-> TRUE, points |-> valid,
              dataKey |-> lineDataKey(data),
              line |-> [i \in 1..Len(valid) |-> valid[i][lineDataKey(data)]],
              tooltips |-> [i \in 1..Len(valid) |-> tooltipValue(valid[i])],
              stats |-> statsPanel(data)]

renderChart ==
    /\ pc = "props"
    /\ out' = TimeSeriesChart(arg)
    /\ pc' = "rendered"
    /\ UNCHANGED <<mode, arg>>

InitSeries ==
    /\ InitValues /\ last = Step("load", EmptyStr, EmptyStr, 0, TRUE)
    /\ mode = "all" /\ arg \in SeriesData /\ out = Null /\ pc = "props"

RenderChart == renderChart /\ UNCHANGED appVars

NextSeries == RenderChart

SpecSeries == InitSeries /\ [][NextSeries]_vars

(***************************************************************************)
(* Properties.                                                             *)
(***************************************************************************)
\* the Forecast View's states
FvIdle == ~forecastData.held /\ ~fvLoading /\ fvError = Null
FvLoadingState == ~forecastData.held /\ fvLoading /\ fvError = Null
FvLoaded == forecastData.held /\ ~fvLoading /\ fvError = Null
FvErrorState == ~forecastData.held /\ ~fvLoading /\ fvError # Null

\* C1: in the Forecast View a click while no bundle is held clears the error
\* and issues exactly one getForecast call (loading); the call's success
\* stores the bundle (loaded), its failure stores an error message and no
\* bundle (error); a click while a bundle is held discards it and returns to
\* idle without issuing a call.
C1_ForecastCycleStep ==
    /\ (last'.op = "handleForecastClick" /\ ~forecastData.held) =>
          /\ FvIdle \/ FvErrorState
          /\ FvLoadingState'
          /\ fcCalls' = fcCalls + 1
          /\ \E c \in fcPending' :
                /\ c.id = fcCalls'
                /\ c \notin fcPending
                /\ fcPending' = fcPending \cup {c}
    /\ (last'.op = "handleForecastClick" /\ forecastData.held) =>
          /\ FvLoaded
          /\ FvIdle'
          /\ fcCalls' = fcCalls
          /\ fcPending' = fcPending
    /\ (last'.op = "forecastSettled" /\ last'.ok) =>
          /\ FvLoadingState
          /\ FvLoaded'
          /\ forecastData'.id = last'.id
          /\ fcCalls' = fcCalls
    /\ (last'.op = "forecastSettled" /\ ~last'.ok) =>
          /\ FvLoadingState
          /\ FvErrorState'
          /\ fcCalls' = fcCalls
C1_ForecastCycle == [][C1_ForecastCycleStep]_vars

\* the action button has just discarded a held bundle
C1_Witness == last.op = "handleForecastClick" /\ last.had /\ FvIdle /\ last.id = 0

\* how a server that routes on "/" and percent-decodes each segment reads a
\* request path
RECURSIVE decodeURIComponent(_)
decodeURIComponent(s) ==
    IF s = <<>> THEN <<>>
    ELSE IF Len(s) >= 6 /\ SubSeq(s, 1, 6) = <<"%", "C", "3", "%", "A", "9">>
         THEN <<"é">> \o decodeURIComponent(SubSeq(s, 7, Len(s)))
    ELSE IF Len(s) >= 3 /\ SubSeq(s, 1, 3) = <<"%", "2", "0">>
         THEN <<" ">> \o decodeURIComponent(SubSeq(s, 4, Len(s)))
    ELSE IF Len(s) >= 3 /\ SubSeq(s, 1, 3) = <<"%", "2", "5">>
         THEN <<"%">> \o decodeURIComponent(SubSeq(s, 4, Len(s)))
    ELSE IF Len(s) >= 3 /\ SubSeq(s, 1, 3) = <<"%", "2", "F">>
         THEN <<"/">> \o decodeURIComponent(SubSeq(s, 4, Len(s)))
    ELSE <<Head(s)>> \o decodeURIComponent(Tail(s))

RECURSIVE SplitPath(_, _)
\* the segments of a path: split at every "/" (cur is the segment being read)
SplitPath(s, cur) ==
    IF s = <<>> THEN <<cur>>
    ELSE IF Head(s) = "/" THEN <<cur>> \o SplitPath(Tail(s), <<>>)
    ELSE SplitPath(Tail(s), Append(cur, Head(s)))

\* the path parameters a server routing on "/" reads from the part of a URL
\* that follows the endpoint prefix
PathParams(url) ==
    LET segs == SplitPath(SubSeq(url, 3, Len(url)), <<>>)
    IN  [i \in 1..Len(segs) |-> decodeURIComponent(segs[i])]

\* C2: every pair the selector emits makes the Root clear its error, switch
\* the forecast toggle off and issue exactly one getTimeSeries call whose
\* request path carries exactly that pair, percent-encoded; nothing but a
\* selection issues a getTimeSeries call.
C2_SelectionStep ==
    /\ (last'.op = "handleStationChange" /\ last'.linea # EmptyStr /\ last'.estacion # EmptyStr) =>
          /\ error' = Null
          /\ showForecast' = FALSE
          /\ tsCalls' = tsCalls + 1
          /\ \E c \in tsPending' :
                /\ c.id = tsCalls'
                /\ tsPending' = tsPending \cup {c}
                /\ c \notin tsPending
                /\ c.linea = last'.linea /\ c.estacion = last'.estacion
                /\ SubSeq(c.url, 1, 2) = <<API_BASE_URL, "/timeseries/">>
                /\ PathParams(c.url) = <<last'.linea, last'.estacion>>
    /\ (tsCalls' # tsCalls \/ ~(tsPending' \subseteq tsPending)) =>
          /\ last'.op = "handleStationChange"
          /\ last'.linea = selectedLine /\ last'.linea # EmptyStr /\ last'.estacion # EmptyStr
C2_SelectionFetchesOnce == [][C2_SelectionStep]_vars

\* a call is in flight for a pair both of whose names need encoding
C2_Witness == \E c \in tsPending : c.linea = L2 /\ c.estacion = ab /\ last.op = "handleStationChange"

\* the getTimeSeries call settled last
LastSettled == resolved[Len(resolved)]

\* C3: a selection made while an earlier call is in flight cancels nothing,
\* and the Root holds the series and the station of the call that settled
\* last, whichever call was issued last.
C3_NothingCancelledStep ==
    /\ last'.op = "handleStationChange" => tsPending \subseteq tsPending'
    /\ \A c \in tsPending \ tsPending' :
          /\ last'.op = "timeSeriesSettled" /\ last'.id = c.id
          /\ Len(resolved') = Len(resolved) + 1
          /\ resolved'[Len(resolved')].id = c.id
C3_LastSettledHeld ==
    (resolved # <<>> /\ LastSettled.ok) =>
        /\ timeSeriesData.held /\ timeSeriesData.id = LastSettled.id
        /\ selectedStation = Station(LastSettled.linea, LastSettled.estacion)
C3_LastResolvedWins == [][C3_NothingCancelledStep]_vars /\ []C3_LastSettledHeld

\* two overlapping calls have both succeeded, the one issued first settling last
C3_Witness ==
    /\ Len(resolved) = 2 /\ tsPending = {}
    /\ resolved[1].id = 2 /\ resolved[1].ok
    /\ resolved[2].id = 1 /\ resolved[2].ok
    /\ Station(resolved[1].linea, resolved[1].estacion) # Station(resolved[2].linea, resolved[2].estacion)
    /\ timeSeriesData.id = 1

\* C4: the Root shows its loading indicator whenever a getTimeSeries call it
\* issued has not settled, also when the calls of several selections overlap.
C4_LoadingWhilePending == tsPending # {} => loading

\* C5: a failed getTimeSeries call sets the generic error and empties the held
\* series, so no series fetched before the failure is held after it; the
\* failure issues no new call.
C5_FailureStep ==
    (last'.op = "timeSeriesSettled" /\ ~last'.ok) =>
        /\ error' = GenericError
        /\ timeSeriesData' = NoSeries
        /\ tsCalls' = tsCalls
        /\ tsPending' \subseteq tsPending
C5_NoStaleSeries ==
    timeSeriesData.held =>
        /\ resolved # <<>> /\ LastSettled.ok /\ LastSettled.id = timeSeriesData.id
C5_FailClosed == [][C5_FailureStep]_vars /\ []C5_NoStaleSeries

\* a call fails after an earlier one had delivered a series
C5_Witness ==
    /\ last.op = "timeSeriesSettled" /\ ~last.ok
    /\ Len(resolved) = 2 /\ resolved[1].ok
    /\ error = GenericError /\ ~timeSeriesData.held

\* C6: the Root's view toggle flips the forecast-view boolean and nothing
\* else of the Root: no getTimeSeries call, and the held series, the selected
\* station, the error and the loading flag stay as they are.
C6_ToggleStep ==
    last'.op = "toggleForecast" =>
        /\ showForecast' = ~showForecast
        /\ UNCHANGED <<timeSeriesData, selectedStation, error, loading, tsPending, tsCalls>>
C6_ToggleOnlyFlips == [][C6_ToggleStep]_vars

\* the view was toggled back to the historical chart with a series held
C6_Witness == last.op = "toggleForecast" /\ ~showForecast /\ timeSeriesData.held /\ ~loading /\ error = Null

\* C7: a forecast bundle survives neither a station selection nor a view
\* toggle: after either the Forecast View holds no bundle and has no call in
\* flight, and a bundle is held again only through a getForecast call issued
\* afterwards.
C7_DiscardStep ==
    /\ (last'.op = "toggleForecast"
          \/ (last'.op = "handleStationChange" /\ last'.id # 0)) =>
          /\ FvIdle'
          /\ fcPending' = {}
          /\ fcCalls' = 0
    /\ (forecastData' # forecastData /\ forecastData'.held) =>
          /\ last'.op = "forecastSettled"
          /\ \E c \in fcPending : c.id = forecastData'.id /\ c.id = last'.id
          /\ Mounted(loading, error, showForecast)
C7_BundleNotReused == [][C7_DiscardStep]_vars

\* a selection or a toggle has just happened while a bundle was held
C7_Witness == last.op \in {"toggleForecast", "handleStationChange"} /\ last.had /\ ~forecastData.held

\* C8: the selector calls its consumer only with a line and a station that
\* are both non-empty; choosing a line, or the empty station option, calls
\* nothing.
C8_EmitStep ==
    /\ (last'.op = "handleLineChange"
          \/ (last'.op = "handleStationChange" /\ (last'.linea = EmptyStr \/ last'.estacion = EmptyStr))) =>
          /\ tsCalls' = tsCalls
          /\ UNCHANGED <<rootVars, tsPending, resolved>>
    /\ tsCalls' # tsCalls =>
          /\ last'.op = "handleStationChange"
          /\ last'.linea # EmptyStr /\ last'.estacion # EmptyStr
          /\ \A c \in tsPending' \ tsPending : c.linea # EmptyStr /\ c.estacion # EmptyStr
C8_EmitsOnlyFullPairs == [][C8_EmitStep]_vars

\* the empty station option was chosen after a station had been chosen
C8_Witness == last.op = "handleStationChange" /\ last.estacion = EmptyStr /\ last.chosen /\ tsCalls >= 1

\* the number of times r occurs in the sequence s
Count(s, r) == Cardinality({i \in 1..Len(s) : s[i] = r})

\* C9: choosing a line clears the chosen station, and the candidate stations
\* are exactly the stations of the loaded list on the chosen line, in
\* ascending order of estacion (the order of localeCompare).
C9_LineStep ==
    last'.op = "handleLineChange" =>
        /\ selectedLine' = last'.linea
        /\ selSelectedStation' = EmptyStr
C9_Candidates ==
    LET sfl == stationsForLine(stations, selectedLine)
    IN  selectedLine # EmptyStr =>
          /\ \A i \in 1..Len(stations) :
                Count(sfl, stations[i]) =
                    IF stations[i].linea = selectedLine THEN Count(stations, stations[i]) ELSE 0
          /\ \A i \in 1..Len(sfl) : sfl[i].linea = selectedLine /\ Count(stations, sfl[i]) > 0
          /\ \A i, j \in 1..Len(sfl) : i < j => localeCompare(sfl[i].estacion, sfl[j].estacion) <= 0
C9_LineChoice == [][C9_LineStep]_vars /\ []C9_Candidates

\* a line with several stations was chosen while a station was chosen
C9_Witness ==
    /\ last.op = "handleLineChange" /\ last.chosen /\ selectedLine = L1
    /\ Len(stationsForLine(stations, selectedLine)) >= 3

\* the selector's states
SelLoadingState == selLoading
SelReady == ~selLoading /\ selError = Null
SelErrorState == ~selLoading /\ selError # Null

\* C10: the selector issues exactly one listStations call when it is
\* activated, is loading until the call settles, is ready after a success and
\* in error after a failure, and in error issues no call: its only step is the
\* user's reload.
C10_OneCall ==
    /\ stCalls = IF effectPending THEN 0 ELSE 1
    /\ (effectPending \/ stPending) => SelLoadingState
    /\ (~effectPending /\ ~stPending) => ~SelLoadingState
C10_SettleStep ==
    /\ last'.op = "stationsSettled" =>
          /\ SelLoadingState
          /\ IF last'.ok THEN SelReady' ELSE SelErrorState'
          /\ stCalls' = stCalls
    /\ SelErrorState => (last'.op = "reload" /\ stCalls' = 0 /\ ~stPending')
    /\ stCalls' > stCalls => last'.op = "fetchStations"
C10_SelectorLifecycle == []C10_OneCall /\ [][C10_SettleStep]_vars

\* the listStations call has failed
C10_Witness == SelErrorState /\ last.op = "stationsSettled" /\ ~last.ok /\ stCalls = 1

\* C11: when getStations resolves with an empty array the selector is ready
\* (neither loading nor error) and the station <select> shows the
\* 'No hay estaciones disponibles' placeholder.
C11_EmptyListPlaceholder ==
    (last.op = "stationsSettled" /\ last.ok /\ stations = <<>>)
        => SelReady /\ stationPlaceholder = "No hay estaciones disponibles"

\* the arguments of a getTimeSeries or getForecast call are incomplete
MissingArgument ==
    arg.fn \in {"getTimeSeries", "getForecast"} /\ (Falsy(arg.linea) \/ Falsy(arg.estacion))

\* C12: a getTimeSeries or getForecast call whose linea or estacion is empty
\* or missing fails with an error and issues no network request.
C12_RejectedBeforeFetch ==
    (pc \in {"await", "settled"} /\ MissingArgument)
        => pc = "settled" /\ out.result.threw /\ out.requests = <<>>

C12_Witness ==
    /\ pc = "settled" /\ arg.fn = "getForecast" /\ arg.linea = L1 /\ arg.estacion = Undefined
    /\ out.result.threw /\ out.requests = <<>>

\* the prefix each call puts before the message of an error it caught
Prefix(fn) ==
    IF fn = "getStations" THEN "No se pudieron obtener las estaciones: "
    ELSE IF fn = "getTimeSeries" THEN "No se pudo obtener la serie temporal: "
    ELSE "No se pudo obtener el pronóstico: "

StatusMessage(response) == "Error " \o ToString(response.status) \o ": " \o response.statusText

\* a call settled on a non-success HTTP response
SettledOnHttpError == pc = "settled" /\ out.requests # <<>> /\ arg.response.net /\ ~arg.response.ok

\* C13 as stated: on a non-success response the error is the call's prefix
\* followed by the detail of the body whenever the body is JSON with a detail
\* field, and by "Error <status>: <statusText>" otherwise.
C13_DetailVerbatim ==
    SettledOnHttpError =>
        /\ out.result.threw
        /\ out.result.msg =
              Prefix(arg.fn) \o (IF arg.response.parse /\ arg.response.body.hasDetail
                                 THEN arg.response.body.detail
                                 ELSE StatusMessage(arg.response))

\* C13 (amended): on a non-success response the error is the call's prefix
\* followed by the detail of the body whenever the body is JSON with a
\* non-empty detail, and by "Error <status>: <statusText>" otherwise (body not
\* JSON, no detail field, or an empty detail).
C13_DetailOrStatus ==
    SettledOnHttpError =>
        /\ out.result.threw
        /\ out.result.msg =
              Prefix(arg.fn) \o (IF /\ arg.response.parse
                                    /\ arg.response.body.hasDetail
                                    /\ arg.response.body.detail # ""
                                 THEN arg.response.body.detail
                                 ELSE StatusMessage(arg.response))

C13_Witness ==
    /\ SettledOnHttpError /\ arg.fn = "getTimeSeries" /\ arg.response.status = 404
    /\ out.result.msg = "No se pudo obtener la serie temporal: Estacion no encontrada"

Range(s) == {s[i] : i \in 1..Len(s)}
\* the rows of a sequence with the number of times each occurs
BagOf(s) == [x \in Range(s) |-> Cardinality({i \in 1..Len(s) : s[i] = x})]

\* the value of a raw array at index i as a row must carry it: absent when the
\* array is missing, too short or null there, the value itself otherwise
Carried(arr, i) ==
    IF ~arr.isArray \/ i > Len(arr.items) THEN JsUndefined
    ELSE IF arr.items[i] = JsNull THEN JsUndefined
    ELSE arr.items[i]

\* the rows a raw bundle calls for, one per index of each sub-series' dates
ExpectedTrain(b) ==
    IF ~b.train.present \/ ~b.train.dates.isArray THEN <<>>
    ELSE [i \in 1..Len(b.train.dates.items) |->
            [fecha |-> Carried(b.train.dates, i), actual |-> Carried(b.train.actual, i),
             fitted |-> Carried(b.train.fitted, i), validation_predicted |-> JsUndefined,
             predicted |-> JsUndefined, lower |-> Carried(b.train.lower, i),
             upper |-> Carried(b.train.upper, i), type |-> "train"]]
ExpectedTest(b) ==
    IF ~b.test.present \/ ~b.test.dates.isArray THEN <<>>
    ELSE [i \in 1..Len(b.test.dates.items) |->
            [fecha |-> Carried(b.test.dates, i), actual |-> Carried(b.test.actual, i),
             fitted |-> JsUndefined, validation_predicted |-> Carried(b.test.predicted, i),
             predicted |-> JsUndefined, lower |-> Carried(b.test.lower, i),
             upper |-> Carried(b.test.upper, i), type |-> "test"]]
ExpectedFuture(b) ==
    IF ~b.forecast.present \/ ~b.forecast.dates.isArray THEN <<>>
    ELSE [i \in 1..Len(b.forecast.dates.items) |->
            [fecha |-> Carried(b.forecast.dates, i), actual |-> JsUndefined,
             fitted |-> JsUndefined, validation_predicted |-> JsUndefined,
             predicted |-> Carried(b.forecast.predicted, i), lower |-> Carried(b.forecast.lower, i),
             upper |-> Carried(b.forecast.upper, i), type |-> "future"]]

\* C14: the rows made from a held bundle are, for each sub-series and each
\* index i of its dates, one row tagged with the sub-series' type whose fields
\* are the values at index i; a null value is absent in the row (neither null
\* nor zero) and any other value is carried unchanged.
C14_OneRowPerIndex ==
    pc = "held" =>
        LET rows == prepareChartData(out, "all")
        IN  /\ BagOf(rows) = BagOf(ExpectedTrain(arg) \o ExpectedTest(arg) \o ExpectedFuture(arg))
            /\ \A i \in 1..Len(rows) :
                  \A f \in {"fecha", "actual", "fitted", "validation_predicted", "predicted", "lower", "upper"} :
                     rows[i][f] # JsNull

C14_Witness ==
    /\ pc = "held" /\ arg.train.present /\ arg.train.dates.isArray /\ arg.train.actual.isArray
    /\ Len(arg.train.actual.items) = 2
    /\ arg.train.actual.items[1] = JsNull /\ arg.train.actual.items[2] = Num(12000)
    /\ \E i \in 1..Len(chartData) : chartData[i].type = "train" /\ chartData[i].actual = JsUndefined
    /\ \E i \in 1..Len(chartData) : chartData[i].type = "train" /\ chartData[i].actual = Num(12000)

\* the indexes of the dates of a raw sub-series
DateIndexes(sub) == IF sub.present /\ sub.dates.isArray THEN 1..Len(sub.dates.items) ELSE {}

\* C15: a test row carries its prediction only under validation_predicted
\* (its predicted is absent) and a future row only under predicted (its
\* validation_predicted is absent); when a test date and a forecast date
\* coincide there are two separate rows, each with its own prediction.
C15_PredictionsKeptApart ==
    pc = "held" =>
        LET rows == prepareChartData(out, "all")
        IN  /\ \A p \in 1..Len(rows) :
                  /\ rows[p].type = "test" => rows[p].predicted = JsUndefined
                  /\ rows[p].type = "future" => rows[p].validation_predicted = JsUndefined
            /\ \A i \in DateIndexes(arg.test) : \A j \in DateIndexes(arg.forecast) :
                  arg.test.dates.items[i] = arg.forecast.dates.items[j] =>
                      \E p \in 1..Len(rows) : \E q \in 1..Len(rows) :
                          /\ p # q
                          /\ rows[p].type = "test" /\ rows[p].fecha = Carried(arg.test.dates, i)
                          /\ rows[p].validation_predicted = Carried(arg.test.predicted, i)
                          /\ rows[q].type = "future" /\ rows[q].fecha = Carried(arg.forecast.dates, j)
                          /\ rows[q].predicted = Carried(arg.forecast.predicted, j)

C15_Witness ==
    /\ pc = "held" /\ mode = "all" /\ arg.test.present /\ arg.forecast.present
    /\ arg.test.dates.items = <<Str("2021-01")>> /\ arg.forecast.dates.items = <<Str("2021-01")>>
    /\ \E p \in 1..Len(chartData) : \E q \in 1..Len(chartData) :
          /\ chartData[p].type = "test" /\ chartData[p].fecha = Str("2021-01")
          /\ chartData[p].validation_predicted = Num(31000) /\ chartData[p].predicted = JsUndefined
          /\ chartData[q].type = "future" /\ chartData[q].fecha = Str("2021-01")
          /\ chartData[q].predicted = Num(31000) /\ chartData[q].validation_predicted = JsUndefined

\* the rows a raw bundle calls for in a mode
ExpectedRows(b, m) ==
    (IF m \in {"all", "train"} THEN ExpectedTrain(b) ELSE <<>>)
      \o (IF m \in {"all", "test"} THEN ExpectedTest(b) ELSE <<>>)
      \o (IF m \in {"all", "future"} THEN ExpectedFuture(b) ELSE <<>>)

\* a held bundle without the sub-series that a mode leaves out
OnlySubSeries(fd, m) ==
    [fd EXCEPT !.train = IF m \in {"all", "train"} THEN @ ELSE NoSub,
               !.test = IF m \in {"all", "test"} THEN @ ELSE NoSub,
               !.forecast = IF m \in {"all", "future"} THEN @ ELSE NoSub]

\* C16: in mode all the rows returned are all the merged rows, in mode train,
\* test or future exactly the rows of that type; the rows are filtered before
\* they are sorted (the result is the one obtained from a bundle that has
\* only the sub-series of the mode), and filtering the result again by the
\* same mode leaves it unchanged.
C16_ModeFilter ==
    pc = "held" =>
        /\ BagOf(chartData) = BagOf(ExpectedRows(arg, mode))
        /\ mode # "all" => \A p \in 1..Len(chartData) : chartData[p].type = mode
        /\ chartData = prepareChartData(OnlySubSeries(out, mode), "all")
        /\ mode # "all" => filterByMode(chartData, mode) = chartData

C16_Witness ==
    /\ pc = "held" /\ mode = "test"
    /\ Len(ExpectedTrain(arg)) = 2 /\ Len(ExpectedTest(arg)) = 1 /\ Len(ExpectedFuture(arg)) = 1
    /\ Len(chartData) = 1 /\ chartData[1].type = "test"

Parses(row) == newDate(row.fecha).valid
Ascending(rows) ==
    \A p \in 1..Len(rows) : \A q \in 1..Len(rows) :
        (p < q /\ Parses(rows[p]) /\ Parses(rows[q])) => newDate(rows[p].fecha).time <= newDate(rows[q].fecha).time

\* C17 as stated: for every bundle and mode the rows returned are in ascending
\* order of the parsed date of fecha, and no row is dropped.
C17_AlwaysAscending ==
    pc = "held" => Ascending(chartData) /\ BagOf(chartData) = BagOf(ExpectedRows(arg, mode))

\* C17 (amended): the rows returned are in ascending order of the parsed date
\* of fecha whenever the fecha of every row parses; a row whose fecha does not
\* parse compares as equal to every other row (so rows it separates may stay
\* out of order); no exception is raised and no row is dropped.
C17_AscendingWhenParseable ==
    pc = "held" =>
        /\ (\A p \in 1..Len(chartData) : Parses(chartData[p])) => Ascending(chartData)
        /\ \A p \in 1..Len(chartData) : \A q \in 1..Len(chartData) :
              ~Parses(chartData[p]) =>
                  compareFecha(chartData[p], chartData[q]) = 0 /\ compareFecha(chartData[q], chartData[p]) = 0
        /\ BagOf(chartData) = BagOf(ExpectedRows(arg, mode))

C17_Witness ==
    /\ pc = "held" /\ mode = "all"
    /\ arg.train.present /\ arg.train.dates.items = <<Str("2021-03"), Str("2021-01")>>
    /\ arg.test.present /\ arg.test.dates.items = <<Str("2021-01")>>
    /\ ~arg.forecast.present
    /\ Len(chartData) = 3
    /\ chartData[1].fecha = Str("2021-01") /\ chartData[1].type = "train"
    /\ chartData[2].fecha = Str("2021-01") /\ chartData[2].type = "test"
    /\ chartData[3].fecha = Str("2021-03")

\* an anomaly is on screen: as an area of the chart labelled with its name and
\* impact, or as a card of the events list
Shown(a, fd, m) ==
    \/ \E i \in 1..Len(referenceAreas(fd, m)) :
          referenceAreas(fd, m)[i] =
              [x1 |-> a.start_date, x2 |-> a.end_date,
               label |-> a.name \o " (-" \o ToString(a.impact_percent) \o "%)"]
    \/ \E i \in 1..Len(eventCards(fd)) :
          /\ eventCards(fd)[i].name = a.name
          /\ eventCards(fd)[i].periodo = a.start_date \o " a " \o a.end_date
          /\ eventCards(fd)[i].impacto = "Reducción del " \o ToString(a.impact_percent) \o "% en afluencia"

\* C18: every anomaly of the held bundle is shown, with its name, impact and
\* period, in each of the modes all, train, test and future.
C18_AnomaliesAlwaysShown ==
    (pc = "held" /\ arg.anomalies.isArray) =>
        \A i \in 1..Len(arg.anomalies.items) : Shown(arg.anomalies.items[i], out, mode)

\* metrics.test of the raw bundle is there (an object)
HasTestMetrics(b) == b.metrics.present /\ b.metrics.test.present /\ ~b.metrics.test.isNull

PrimaryValue(item) == IF item.afluencia # JsUndefined THEN item.afluencia ELSE item.mean
\* the points with a date and a primary value
ValidPoints(data) ==
    SelectSeq(data, LAMBDA item : item # JsNull /\ item.fecha # JsUndefined /\ PrimaryValue(item) # JsUndefined)
RECURSIVE SumOf(_)
SumOf(values) == IF values = <<>> THEN 0 ELSE values[1].n + SumOf(Tail(values))
UpperOf(item) == IF item.max # JsUndefined THEN item.max ELSE PrimaryValue(item)
LowerOf(item) == IF item.min # JsUndefined THEN item.min ELSE PrimaryValue(item)

\* C20: whenever some point of the rendered series carries min and max, the
\* three cards are shown and read, over the valid points, the mean of the
\* primary value, the largest of (max, or the primary value when max is
\* absent) and the smallest of (min, or the primary value when min is absent),
\* each rounded to an integer.
C20_Aggregates ==
    (/\ pc = "rendered"
     /\ \E i \in 1..Len(arg) : Get(arg[i], "min") # JsUndefined /\ Get(arg[i], "max") # JsUndefined
     /\ ValidPoints(arg) # <<>>) =>
        LET pts == ValidPoints(arg)
            n == Len(pts)
            total == SumOf([i \in 1..n |-> PrimaryValue(pts[i])])
        IN  /\ out.stats.rendered
            /\ out.stats.mean = intlFormat((2 * total + 1000 * n) \div (2000 * n))
            /\ \E i \in 1..n :
                  /\ \A j \in 1..n : UpperOf(pts[j]).n <= UpperOf(pts[i]).n
                  /\ out.stats.max = intlFormat((UpperOf(pts[i]).n + 500) \div 1000)
            /\ \E i \in 1..n :
                  /\ \A j \in 1..n : LowerOf(pts[j]).n >= LowerOf(pts[i]).n
                  /\ out.stats.min = intlFormat((LowerOf(pts[i]).n + 500) \div 1000)

\* C21: the chart component renders a placeholder and no chart both for an
\* empty data prop and for a data prop none of whose points is valid, and the
\* two placeholders differ.
C21_PlaceholderWhenNothingValid ==
    (pc = "rendered" /\ ValidPoints(arg) = <<>>) =>
        /\ ~out.chart
        /\ out.placeholder # ""
        /\ Len(arg) > 0 => out.placeholder # TimeSeriesChart(<<>>).placeholder

\* the smallest of a non-empty set of numbers
Least(S) == CHOOSE x \in S : \A y \in S : x <= y

\* the arrays of a raw sub-series are all arrays, and their lengths
AllArrays(sub, fields) == \A f \in fields : sub[f].isArray
Lengths(sub, fields) == {Len(sub[f].items) : f \in fields}

TrainFields == {"dates", "actual", "fitted", "lower", "upper"}
TestFields == {"dates", "actual", "predicted", "lower", "upper"}
ForecastFields == {"dates", "predicted", "lower", "upper"}

RowsOfType(rows, type) == SelectSeq(rows, LAMBDA d : d.type = type)

\* C22: the rows made from a sub-series are as many as the shortest of its
\* arrays (dates included), so that no array is read past its end.
C22_StopsAtShorter ==
    pc = "held" =>
        LET rows == mergeRows(out)
        IN  /\ (arg.train.present /\ AllArrays(arg.train, TrainFields)) =>
                  Len(RowsOfType(rows, "train")) = Least(Lengths(arg.train, TrainFields))
            /\ (arg.test.present /\ AllArrays(arg.test, TestFields)) =>
                  Len(RowsOfType(rows, "test")) = Least(Lengths(arg.test, TestFields))
            /\ (arg.forecast.present /\ AllArrays(arg.forecast, ForecastFields)) =>
                  Len(RowsOfType(rows, "future")) = Least(Lengths(arg.forecast, ForecastFields))

\* C23: in one render one field, afluencia or mean, is the primary value of
\* every valid point: the line plots it, the tooltip shows it and the mean is
\* computed from it; the field is afluencia when the points carry it.
C23_OnePrimaryField ==
    (pc = "rendered" /\ out.chart) =>
        \E field \in {"afluencia", "mean"} :
            /\ (\A i \in 1..Len(out.points) : out.points[i].afluencia # JsUndefined) => field = "afluencia"
            /\ \A i \in 1..Len(out.points) :
                  /\ out.line[i] = out.points[i][field]
                  /\ out.tooltips[i] = out.points[i][field]
                  /\ aggregateValue(out.points[i]) = out.points[i][field]

\* the Forecast View is on screen
FvMounted == Mounted(loading, error, showForecast)

\* C24: a bundle held by the mounted Forecast View was fetched for the line
\* and station the Root holds as selectedStation and passes to the view.
C24_BundleOfSelectedStation ==
    (FvMounted /\ forecastData.held) =>
        /\ forecastData.linea = selectedStation.linea
        /\ forecastData.estacion = selectedStation.estacion

\* C25: in the Root an error message and a fetched time series are never held
\* together: the error being set implies the held series is the empty one, and
\* a fetched series being held implies no error is set.
C25_ErrorXorSeries == ~(error # Null /\ timeSeriesData.held)

\* C26: the mounted Forecast View has at most one getForecast call
\* outstanding, and while one is outstanding the view is loading (its action
\* button is disabled); an error message and a bundle are never held together.
C26_OneCallErrorXorBundle ==
    /\ Cardinality(fcPending) <= 1
    /\ fcPending # {} => (FvMounted /\ fvLoading)
    /\ ~(fvError # Null /\ forecastData.held)

C26_Witness ==
    /\ FvMounted /\ fcCalls = 2 /\ Cardinality(fcPending) = 1 /\ fvLoading
    /\ ~ForecastButtonEnabled /\ fvError = Null /\ ~forecastData.held

====
